---- MODULE Spec2Model ----
(***************************************************************************)
(* A model of pyslackrandomcoffee.py: the pair generator generate_pairs    *)
(* and the run pyslackrandomcoffee around it (roster provider, history     *)
(* provider, announcer).                                                   *)
(*                                                                         *)
(* Python values are modelled as follows.                                  *)
(*   str            a sequence of one-character strings                    *)
(*   list, tuple    a sequence                                             *)
(*   None / a value a record [isNone, val] (NoneVal, Some(v))              *)
(*   dict           a function; the empty dict is the empty function       *)
(* A Python list is an object: generate_pairs(members, ...) receives the   *)
(* caller's list itself, so the variable members below is that one object, *)
(* whoever names it.                                                       *)
(***************************************************************************)
EXTENDS Integers, Sequences, FiniteSets, TLC

VARIABLES
    pc,                        \* the position of the run
    raised,                    \* the exception that escaped, "" when none
    members,                   \* the list object passed to generate_pairs
    previous_pairs,            \* the history passed to generate_pairs
    members_previous_matches,  \* the dict built at lines 287-298
    first_member,              \* line 336; <<>> while unbound
    pairs,                     \* the list built by the loop, lines 334-344
    result,                    \* what generate_pairs returned
    roster,                    \* what members held when generate_pairs was called
    history,                   \* what previous_pairs held when generate_pairs was called
    log,                       \* one record per call of pair_excluding_historic_matches
    testing,                   \* the global testing, line 19
    pairs_are_public,          \* the global pairs_are_public, line 18
    bot_user_id,               \* line 422
    members_none,              \* TRUE when get_members_list returned None, line 423
    conversation_history,      \* the messages get_previous_pairs fetched, line 120
    message,                   \* line 426
    mpim_i,                    \* the pair mpim_all_pairs is at, line 380
    calls                      \* the calls made to the Slack client, in order

gen_vars == <<pc, raised, members, previous_pairs, members_previous_matches,
              first_member, pairs, result, roster, history, log>>

gen_data == <<members, previous_pairs, members_previous_matches, first_member,
              pairs, result, roster, history, log>>

run_vars == <<testing, pairs_are_public, bot_user_id, members_none,
              conversation_history, message, mpim_i, calls>>

vars == <<gen_vars, run_vars>>

----------------------------------------------------------------------------
(* Bounds and input sets *)

MaxMembers == 4

UA == <<"U", "A">>
UB == <<"U", "B">>
UC == <<"U", "C">>
UD == <<"U", "D">>
UE == <<"U", "E">>
UF == <<"U", "F">>

\* The user ids a roster is drawn from, in the order the platform lists them.
AllIds == <<UA, UB, UC, UD, UE, UF>>

\* The pairs a history is drawn from: every combination of the first four
\* ids, in one orientation or the other, and the self-pair a roster of one
\* produces.
PastPairSeq ==
    << <<UA, UB>>, <<UC, UA>>, <<UA, UD>>, <<UB, UC>>, <<UD, UB>>, <<UC, UD>>, <<UA, UA>> >>

----------------------------------------------------------------------------
(* Python values *)

NoneVal == [isNone |-> TRUE, val |-> <<>>]
Some(v) == [isNone |-> FALSE, val |-> v]

\* bool(x) of an optional list
Truthy(x) == ~x.isNone /\ x.val # <<>>

Range(s) == {s[i] : i \in DOMAIN s}

EmptyDict == [k \in {} |-> {}]

\* No exception, and the exception exc raised in function at.
NoExc == [exc |-> "", at |-> ""]
Exc(exc, at) == [exc |-> exc, at |-> at]

----------------------------------------------------------------------------
(* generate_pairs, lines 256-348 *)

\* random.shuffle(members), line 280: every order of the same elements.
Shuffles(mem) ==
    {[i \in 1..Len(mem) |-> mem[p[i]]] : p \in Permutations(1..Len(mem))}

\* A faulty round scan: the elif of line 296 is missing, so a pair only
\* counts for its first element.
RECURSIVE MatchesInRoundP1Only(_, _)
MatchesInRoundP1Only(member, pair_set) ==
    IF pair_set = <<>> THEN <<>>
    ELSE LET p1 == Head(pair_set)[1]
             p2 == Head(pair_set)[2]
         IN (IF p1 = member THEN <<p2>> ELSE <<>>)
                \o MatchesInRoundP1Only(member, Tail(pair_set))

\* Lines 292-297: what one round adds to the list matches of member.
RECURSIVE MatchesInRound(_, _)
MatchesInRound(member, pair_set) ==
    IF pair_set = <<>> THEN <<>>
    ELSE LET p1 == Head(pair_set)[1]
             p2 == Head(pair_set)[2]
         IN (IF p1 = member \/ p2 = member
             THEN IF p1 = member THEN <<p2>>
                  ELSE IF p2 = member THEN <<p1>> ELSE <<>>
             ELSE <<>>)
                \o MatchesInRound(member, Tail(pair_set))

\* Lines 290-297: the list matches of member over all rounds.
RECURSIVE Matches(_, _)
Matches(member, rounds) ==
    IF rounds = <<>> THEN <<>>
    ELSE MatchesInRound(member, Head(rounds)) \o Matches(member, Tail(rounds))

\* Lines 287-298: the dict members_previous_matches. list(set(matches)) is
\* only ever tested for membership, so its value is kept as a set.
PreviousMatches(mem, prev) ==
    IF mem # <<>> /\ Truthy(prev)
    THEN [member \in Range(mem) |-> Range(Matches(member, prev.val))]
    ELSE EmptyDict

\* A faulty guard: line 335 left out.
HasMembersAlways(mem) == TRUE

\* if members: (line 335)
HasMembers(mem) == mem # <<>>

\* A faulty odd-one-out: members[0].
LastOfFront(mem) == mem[1]

\* members[-1] (line 336)
LastOf(mem) == mem[Len(mem)]

\* A faulty pop: members.pop(0).
PopFront(mem) == [item |-> mem[1], rest |-> Tail(mem)]

\* members.pop() (line 339): the item taken and the list left.
Pop(mem) == [item |-> mem[Len(mem)], rest |-> SubSeq(mem, 1, Len(mem) - 1)]

\* A faulty removal: members.pop() in place of members.remove(member2).
RemoveLast(mem, x) == SubSeq(mem, 1, Len(mem) - 1)

\* members.remove(member2) (line 327): the first occurrence goes.
Remove(mem, x) ==
    LET i == CHOOSE k \in DOMAIN mem : mem[k] = x /\ \A j \in 1..(k - 1) : mem[j] # x
    IN SubSeq(mem, 1, i - 1) \o SubSeq(mem, i + 1, Len(mem))

\* A faulty selection: no fallback to members when no candidate is left.
PopulationNoFallback(member1, mem, mpm) ==
    IF DOMAIN mpm # {}
    THEN SelectSeq(mem, LAMBDA member : member \notin mpm[member1])
    ELSE mem

\* Lines 316-325: the list member2 is sampled from. random.sample(l, 1) of an
\* empty l raises ValueError: caught at line 321 for the candidates, not
\* caught for members (lines 323 and 325).
Population(member1, mem, mpm) ==
    IF DOMAIN mpm # {}
    THEN LET member2_candidates ==
                 SelectSeq(mem, LAMBDA member : member \notin mpm[member1])
         IN IF member2_candidates # <<>> THEN member2_candidates ELSE mem
    ELSE mem

\* pair_excluding_historic_matches (lines 300-330): every outcome of one call,
\* as the exception raised ("" when none), the pair and the list left.
pair_excluding_historic_matches(member1, mem, mpm) ==
    IF DOMAIN mpm # {} /\ member1 \notin DOMAIN mpm
    THEN {[exc |-> "KeyError", pair |-> <<>>, members |-> mem]}
    ELSE IF Population(member1, mem, mpm) = <<>>
    THEN {[exc |-> "ValueError", pair |-> <<>>, members |-> mem]}
    ELSE {[exc |-> "", pair |-> <<member1, member2>>, members |-> Remove(mem, member2)] :
             member2 \in Range(Population(member1, mem, mpm))}

\* Line 280.
Shuffle ==
    /\ pc = "shuffle"
    /\ members' \in Shuffles(members)
    /\ pc' = "index"
    /\ UNCHANGED <<raised, previous_pairs, members_previous_matches, first_member,
                   pairs, result, roster, history, log>>
    /\ UNCHANGED run_vars

\* Lines 287-298.
BuildIndex ==
    /\ pc = "index"
    /\ members_previous_matches' = PreviousMatches(members, previous_pairs)
    /\ pc' = "begin"
    /\ UNCHANGED <<raised, members, previous_pairs, first_member, pairs, result,
                   roster, history, log>>
    /\ UNCHANGED run_vars

\* Lines 334-336.
Begin ==
    /\ pc = "begin"
    /\ pairs' = <<>>
    /\ IF HasMembers(members)
       THEN IF members = <<>>
            THEN /\ raised' = Exc("IndexError", "generate_pairs")
                 /\ pc' = "raised"
                 /\ UNCHANGED first_member
            ELSE /\ first_member' = LastOf(members)
                 /\ pc' = "loop"
                 /\ UNCHANGED raised
       ELSE /\ pc' = "loop"
            /\ UNCHANGED <<raised, first_member>>
    /\ UNCHANGED <<members, previous_pairs, members_previous_matches, result,
                   roster, history, log>>
    /\ UNCHANGED run_vars

\* One outcome o of pair_excluding_historic_matches(member1, mem, ...) taken
\* into the loop: lines 340/342 and 344.
TakeOutcome(member1, mem, o) ==
    IF o.exc # ""
    THEN /\ raised' = Exc(o.exc, "pair_excluding_historic_matches")
         /\ pc' = "raised"
         /\ members' = mem
         /\ UNCHANGED <<pairs, log>>
    ELSE /\ members' = o.members
         /\ pairs' = Append(pairs, o.pair)
         /\ log' = Append(log, [member1 |-> member1, remaining |-> mem,
                                member2 |-> o.pair[2]])
         /\ UNCHANGED <<pc, raised>>

\* One iteration with two or more members left: lines 337-340, 344.
LoopPair ==
    /\ pc = "loop"
    /\ Len(members) >= 2
    /\ \E o \in pair_excluding_historic_matches(Pop(members).item, Pop(members).rest,
                                                members_previous_matches) :
           TakeOutcome(Pop(members).item, Pop(members).rest, o)
    /\ UNCHANGED <<previous_pairs, members_previous_matches, first_member, result,
                   roster, history>>
    /\ UNCHANGED run_vars

\* The iteration with one member left: lines 337, 341-344.
LoopLast ==
    /\ pc = "loop"
    /\ Len(members) = 1
    /\ \E o \in pair_excluding_historic_matches(first_member, members,
                                                members_previous_matches) :
           TakeOutcome(first_member, members, o)
    /\ UNCHANGED <<previous_pairs, members_previous_matches, first_member, result,
                   roster, history>>
    /\ UNCHANGED run_vars

\* The loop test fails: lines 337, 346-348.
Return ==
    /\ pc = "loop"
    /\ Len(members) = 0
    /\ result' = Some(pairs)
    /\ pc' = "returned"
    /\ UNCHANGED <<raised, members, previous_pairs, members_previous_matches,
                   first_member, pairs, roster, history, log>>
    /\ UNCHANGED run_vars

----------------------------------------------------------------------------
(* generate_pairs called on every roster and history within the bounds *)

\* A history made of the pairs of S: all of them in one round, or one round
\* for each.
OneRound(S) == <<SelectSeq(PastPairSeq, LAMBDA p : p \in S)>>

RECURSIVE RoundPerPair(_)
RoundPerPair(ps) ==
    IF ps = <<>> THEN <<>> ELSE <<<<Head(ps)>>>> \o RoundPerPair(Tail(ps))

Histories ==
    {NoneVal}
        \cup {Some(OneRound(S)) : S \in SUBSET Range(PastPairSeq)}
        \cup {Some(RoundPerPair(OneRound(S)[1])) : S \in SUBSET Range(PastPairSeq)}

Init ==
    /\ pc = "shuffle"
    /\ raised = NoExc
    /\ \E n \in 0..MaxMembers : members = SubSeq(AllIds, 1, n)
    /\ previous_pairs \in Histories
    /\ members_previous_matches = EmptyDict
    /\ first_member = <<>>
    /\ pairs = <<>>
    /\ result = NoneVal
    /\ roster = members
    /\ history = previous_pairs
    /\ log = <<>>
    /\ testing = FALSE
    /\ pairs_are_public = FALSE
    /\ bot_user_id = NoneVal
    /\ members_none = FALSE
    /\ conversation_history = <<>>
    /\ message = NoneVal
    /\ mpim_i = 0
    /\ calls = <<>>

Next == Shuffle \/ BuildIndex \/ Begin \/ LoopPair \/ LoopLast \/ Return

Spec == Init /\ [][Next]_vars

\* The interpreter runs a call to its end.
LiveSpec == Spec /\ WF_vars(Next)

----------------------------------------------------------------------------
(* Properties of generate_pairs *)

\* How often member m occurs among the elements of the pairs prs.
Count(m, prs) ==
    Cardinality({ij \in (DOMAIN prs) \X {1, 2} : prs[ij[1]][ij[2]] = m})

\* The members m was paired with in any round of the history h, read off the
\* history itself.
Excluded(m, h) ==
    IF h.isNone THEN {}
    ELSE {x \in UNION {Range(p) : p \in UNION {Range(r) : r \in Range(h.val)}} :
             \E r \in Range(h.val) : \E p \in Range(r) : p = <<m, x>> \/ p = <<x, m>>}

SelfPair(p) == p[1] = p[2]

\* C1: every result of generate_pairs on a roster of N distinct members has
\* N/2 pairs with each member once when N is even, and (N+1)/2 pairs with one
\* member twice and every other member once when N is odd; no member of the
\* roster is missing and nobody else appears.
C1_Shape ==
    pc = "returned" =>
        LET N == Len(roster)
            out == result.val
        IN /\ ~result.isNone
           /\ \A i \in DOMAIN out : Len(out[i]) = 2 /\ Range(out[i]) \subseteq Range(roster)
           /\ \A m \in Range(roster) : Count(m, out) >= 1
           /\ IF N % 2 = 0
              THEN /\ Len(out) = N \div 2
                   /\ \A m \in Range(roster) : Count(m, out) = 1
              ELSE /\ Len(out) = (N + 1) \div 2
                   /\ \E d \in Range(roster) :
                          /\ Count(d, out) = 2
                          /\ \A m \in Range(roster) \ {d} : Count(m, out) = 1

C1_Witness ==
    /\ pc = "returned"
    /\ Len(roster) = 3
    /\ Len(result.val) = 2
    /\ Truthy(history)
    /\ Count(UB, result.val) = 2

\* C2: with a non-empty history, whenever some member still in the list is
\* not in member1's exclusion set, the partner chosen is not in it; a
\* historical pair is only produced when every member left is excluded.
C2_ExclusionRespected ==
    Truthy(history) =>
        \A k \in DOMAIN log :
            LET e == log[k]
                free == Range(e.remaining) \ Excluded(e.member1, history)
            IN /\ e.member2 \in Range(e.remaining)
               /\ free # {} => e.member2 \in free
               /\ e.member2 \in Excluded(e.member1, history) => free = {}

C2_Witness ==
    /\ pc = "returned"
    /\ Truthy(history)
    /\ \E k \in DOMAIN log :
           LET e == log[k]
               free == Range(e.remaining) \ Excluded(e.member1, history)
           IN /\ free # {}
              /\ free # Range(e.remaining)
              /\ e.member2 \in free
    /\ \E k \in DOMAIN log :
           /\ log[k].member2 \in Excluded(log[k].member1, history)
           /\ Len(log[k].remaining) >= 1

\* C3: after generate_pairs returns, the caller's members list holds the same
\* elements in the same order as before the call, and the history is
\* unchanged.
C3_InputsReadOnly ==
    pc = "returned" => members = roster /\ previous_pairs = history

\* C4: every call of generate_pairs returns: nothing is raised, each loop
\* iteration shortens the working list, a partner is drawn from the whole
\* remaining list when every remaining member is excluded, and members
\* [A, B] with history [[(A, B)]] give one pair holding A and B.
C4_Terminates ==
    /\ <>(pc = "returned")
    /\ [](raised = NoExc)
    /\ [][pc = "loop" /\ pc' = "loop" => Len(members') < Len(members)]_vars
    /\ [](\A k \in DOMAIN log :
              Range(log[k].remaining) \subseteq Excluded(log[k].member1, history)
                  => log[k].member2 \in Range(log[k].remaining))
    /\ [](pc = "returned" /\ roster = <<UA, UB>> /\ history = Some(<< << <<UA, UB>> >> >>)
              => Len(result.val) = 1 /\ Range(result.val[1]) = {UA, UB})

C4_Witness ==
    /\ pc = "returned"
    /\ Len(roster) = 4
    /\ \A m \in Range(roster) : Range(roster) \ {m} \subseteq Excluded(m, history)
    /\ Len(result.val) = 2

\* C5: generate_pairs of an empty roster returns the empty list for every
\* history and raises nothing.
C5_EmptyRoster ==
    roster = <<>> =>
        /\ raised = NoExc
        /\ pc # "raised"
        /\ pairs = <<>>
        /\ pc = "returned" => result = Some(<<>>)

C5_Witness ==
    /\ pc = "returned"
    /\ roster = <<>>
    /\ Truthy(history)
    /\ result = Some(<<>>)

\* C6: the result holds a self-pair exactly when the roster has one member,
\* and then it is the single pair (A, A).
C6_SelfPairOnlyForSingleton ==
    pc = "returned" =>
        /\ (\E i \in DOMAIN result.val : SelfPair(result.val[i])) <=> Len(roster) = 1
        /\ Len(roster) = 1 => result.val = << <<roster[1], roster[1]>> >>

C6_Witness ==
    /\ pc = "returned"
    /\ roster = <<UA>>
    /\ result.val = << <<UA, UA>> >>
    /\ Truthy(history)

\* C10: for an odd roster of three or more, the member that appears twice is
\* first_member, the first member taken from the shuffled list: it is the
\* first element of the first and of the last pair, and the second element
\* of the last pair is the one member that was left.
C10_OddOneOut ==
    (pc = "returned" /\ Len(roster) % 2 = 1 /\ Len(roster) >= 3) =>
        LET out == result.val
            last == log[Len(log)]
        IN /\ Count(first_member, out) = 2
           /\ \A m \in Range(roster) \ {first_member} : Count(m, out) = 1
           /\ log[1].member1 = first_member
           /\ Len(log[1].remaining) = Len(roster) - 1
           /\ out[1][1] = first_member
           /\ out[Len(out)][1] = first_member
           /\ last.remaining = <<out[Len(out)][2]>>
           /\ Len(log) = Len(out)

C10_Witness ==
    /\ pc = "returned"
    /\ Len(roster) = 3
    /\ first_member = UC
    /\ result.val = << <<UC, UA>>, <<UC, UB>> >>

----------------------------------------------------------------------------
(* Python str and list operations used by the announcer and the history   *)
(* provider                                                                *)

MinOf(S) == CHOOSE x \in S : \A y \in S : x <= y
MaxOf(S) == CHOOSE x \in S : \A y \in S : x >= y

\* The places where sub occurs in s.
Occurrences(s, sub) ==
    {i \in 1..(Len(s) - Len(sub) + 1) : SubSeq(s, i, i + Len(sub) - 1) = sub}

\* sub in s
Contains(s, sub) == Occurrences(s, sub) # {}

\* s.split(sep), sep not empty
RECURSIVE Split(_, _)
Split(s, sep) ==
    IF Occurrences(s, sep) = {} THEN <<s>>
    ELSE LET i == MinOf(Occurrences(s, sep))
         IN <<SubSeq(s, 1, i - 1)>> \o Split(SubSeq(s, i + Len(sep), Len(s)), sep)

\* s.strip()
Strip(s) ==
    LET kept == {i \in DOMAIN s : s[i] \notin {" ", "\n", "\t", "\r"}}
    IN IF kept = {} THEN <<>> ELSE SubSeq(s, MinOf(kept), MaxOf(kept))

\* s[start:stop] of a str or a list, either index possibly negative
Slice(s, start, stop) ==
    LET norm(x) == IF x < 0 THEN (IF Len(s) + x < 0 THEN 0 ELSE Len(s) + x)
                   ELSE (IF x > Len(s) THEN Len(s) ELSE x)
    IN IF norm(start) < norm(stop) THEN SubSeq(s, norm(start) + 1, norm(stop)) ELSE <<>>

\* str(n), n >= 0
RECURSIVE Str(_)
Str(n) ==
    LET digit == <<"0", "1", "2", "3", "4", "5", "6", "7", "8", "9">>[(n % 10) + 1]
    IN IF n < 10 THEN <<digit>> ELSE Str(n \div 10) \o <<digit>>

\* ''.join(l)
RECURSIVE Join(_)
Join(l) == IF l = <<>> THEN <<>> ELSE Head(l) \o Join(Tail(l))

----------------------------------------------------------------------------
(* Configuration, lines 12-25 *)

\* int(os.getenv('LOOKBACK_DAYS')): the value of a deployment
LOOKBACK_DAYS == 28

\* os.getenv('MAGICAL_TEXT'): the value of a deployment
MAGICAL_TEXT == <<"C", "a", "f", "e">>

\* The bot's own user id
BotId == <<"U", "Z">>

----------------------------------------------------------------------------
(* format_message_from_list_of_pairs, lines 351-370 *)

\* Line 364: f' {i+1}. <@{p1}> et <@{p2}>\n'
PairString(i, p) ==
    <<" ">> \o Str(i) \o <<".", " ", "<", "@">> \o p[1] \o <<">", " ", "e", "t", " ", "<", "@">> \o p[2] \o <<">", "\n">>

\* Line 366, its wording shortened to the sentence break and the number of
\* days: one line, no newline, no user link.
ClosingLine == <<"i", "m", "p", "a", "i", "r", " ", "d", "e", " ", "m", "e", "m", "b", "r", "e", "s", ".", " ", "L", "e", "s", " ", "p", "a", "i", "r", "e", "s", " ", "d", "e", "s", " ">> \o Str(LOOKBACK_DAYS) \o <<" ", "d", "e", "r", "n", "i", "e", "r", "s", " ", "j", "o", "u", "r", "s", ".">>

format_message_from_list_of_pairs(prs) ==
    IF Len(prs) # 0
    THEN Some(MAGICAL_TEXT \o <<":", "\n">>
                  \o Join([i \in 1..Len(prs) |-> PairString(i, prs[i])])
                  \o ClosingLine)
    ELSE NoneVal

----------------------------------------------------------------------------
(* get_previous_pairs, lines 82-169 *)

\* Lines 161-162: one element of the tuple, which = 1 or 2. The exception is
\* the IndexError of [1] on a line without '. ', or of [which - 1] on a line
\* without 'and'.
ParseName(e, which, strip_len_start, strip_len_end) ==
    IF Len(Split(e, <<".", " ">>)) < 2
    THEN [exc |-> "IndexError", val |-> <<>>]
    ELSE LET halves == Split(Split(e, <<".", " ">>)[2], <<"a", "n", "d">>)
         IN IF Len(halves) < which
            THEN [exc |-> "IndexError", val |-> <<>>]
            ELSE [exc |-> "",
                  val |-> Slice(Strip(halves[which]), strip_len_start, -strip_len_end)]

\* Lines 160-163: the tuple of one line.
ParseLine(e, strip_len_start, strip_len_end) ==
    LET n1 == ParseName(e, 1, strip_len_start, strip_len_end)
        n2 == ParseName(e, 2, strip_len_start, strip_len_end)
    IN IF n1.exc # "" THEN [exc |-> n1.exc, val |-> <<>>]
       ELSE IF n2.exc # "" THEN [exc |-> n2.exc, val |-> <<>>]
       ELSE [exc |-> "", val |-> <<n1.val, n2.val>>]

\* Lines 159-164: the round of one message text; all but its first and last
\* line are parsed.
ParseText(t, strip_len_start, strip_len_end) ==
    LET lines == Slice(Split(t, <<"\n">>), 1, -1)
        parsed == [k \in 1..Len(lines) |-> ParseLine(lines[k], strip_len_start, strip_len_end)]
    IN IF \E k \in 1..Len(lines) : parsed[k].exc # ""
       THEN [exc |-> "IndexError", val |-> <<>>]
       ELSE [exc |-> "", val |-> [k \in 1..Len(lines) |-> parsed[k].val]]

\* Lines 132-135: the bot's own messages, cut to members_count - 2 of them.
KeptMessages(hist, bot, members_count) ==
    LET own == IF ~bot.isNone /\ bot.val # <<>>
               THEN SelectSeq(hist, LAMBDA msg : msg.user = bot.val)
               ELSE hist
        k == IF Len(own) < members_count - 2 THEN Len(own) ELSE members_count - 2
    IN Slice(own, 0, k)

\* Lines 142-148: the texts taken for announcements.
Texts(kept, test) ==
    LET mark == IF test THEN <<"@">> ELSE <<"<", "@", "U">>
        found == SelectSeq(kept, LAMBDA msg : Contains(msg.text, MAGICAL_TEXT)
                                                  /\ Contains(msg.text, mark))
    IN [k \in 1..Len(found) |-> found[k].text]

\* Lines 130-169: what get_previous_pairs makes of the messages it fetched:
\* the exception raised ("" when none) and the value returned.
ParseHistoryOf(hist, test, bot, members_count) ==
    LET texts == Texts(KeptMessages(hist, bot, members_count), test)
        strip_len_start == IF test THEN 1 ELSE 2
        strip_len_end == IF test THEN 0 ELSE 1
        rounds == [k \in 1..Len(texts) |-> ParseText(texts[k], strip_len_start, strip_len_end)]
    IN IF Len(texts) # 0
       THEN IF \E k \in 1..Len(texts) : rounds[k].exc # ""
            THEN [exc |-> "IndexError", val |-> NoneVal]
            ELSE [exc |-> "", val |-> Some([k \in 1..Len(texts) |-> rounds[k].val])]
       ELSE [exc |-> "", val |-> NoneVal]

----------------------------------------------------------------------------
(* What the Slack workspace holds *)

MaxMessages == 2

\* users_info: the user of an id.
User(id) == [id |-> id, name |-> <<id[2]>>, is_bot |-> id = BotId]

\* Lines 242-245: how a member is written.
MemberName(user, test) == IF test THEN <<"@">> \o user.name ELSE user.id

\* Two rounds announced in the past, written as the run writes members.
PastRound1(test) ==
    << <<MemberName(User(UA), test), MemberName(User(UB), test)>>,
       <<MemberName(User(UC), test), MemberName(User(UD), test)>> >>

PastRound2(test) == << <<MemberName(User(UA), test), MemberName(User(UC), test)>> >>

\* An announcement as get_previous_pairs reads them: the names joined by
\* 'and'.
LegacyPairString(i, p) ==
    <<" ">> \o Str(i) \o <<".", " ", "<", "@">> \o p[1] \o <<">", " ", "a", "n", "d", " ", "<", "@">> \o p[2] \o <<">", "\n">>

LegacyMessage(prs) ==
    MAGICAL_TEXT \o <<":", "\n">>
        \o Join([i \in 1..Len(prs) |-> LegacyPairString(i, prs[i])])
        \o <<"e", "n", "d", ".">>

\* The messages the memory channel may hold: announcements of this program,
\* announcements with 'and', and a member's one-line message.
ChannelMessages(test) ==
    { [user |-> BotId, text |-> format_message_from_list_of_pairs(PastRound1(test)).val],
      [user |-> BotId, text |-> LegacyMessage(PastRound1(test))],
      [user |-> BotId, text |-> LegacyMessage(PastRound2(test))],
      [user |-> UA, text |-> MAGICAL_TEXT \o <<" ", "<", "@", "U", "B", ">", "?">>] }

ChannelHistories(test) ==
    UNION {[1..n -> ChannelMessages(test)] : n \in 0..MaxMessages}

----------------------------------------------------------------------------
(* The run pyslackrandomcoffee, lines 390-433 *)

\* One call of the Slack client: its method, what came back ("ok", "not_ok"
\* for a response whose ok is false, "error" for a SlackApiError), and for a
\* delivery where it goes and for which pair.
Call(method, reply, to, i) == [method |-> method, reply |-> reply, to |-> to, i |-> i]

\* get_members_list, lines 238-249: the members of the channel that are not
\* bots.
MembersOf(member_ids, test) ==
    LET people == SelectSeq(member_ids, LAMBDA id : ~User(id).is_bot)
    IN [k \in 1..Len(people) |-> MemberName(User(people[k]), test)]

\* post_to_slack_channel_message, lines 172-201, by what chat_postMessage
\* does: "ok", "not_ok" (a response whose ok is false) or "error"
\* (SlackApiError). The handler at line 193 formats the name channel, which
\* is bound neither in the function nor in the module: NameError.
post_to_slack_channel_message(reply) ==
    IF reply = "error" THEN [exc |-> "NameError", ret |-> FALSE]
    ELSE [exc |-> "", ret |-> reply = "ok"]

\* get_channels_id and lines 401-421. A SlackApiError makes get_channels_id
\* return None, and line 420 subscripts it. With chan_names_are_ids no call
\* is made; what follows does not depend on which, so the call is modelled.
GetChannelsId ==
    /\ pc = "get_channels_id"
    /\ \E reply \in {"ok", "error"} :
           /\ calls' = Append(calls, Call("conversations_list", reply, "", 0))
           /\ IF reply = "ok"
              THEN pc' = "get_bot_user_id" /\ UNCHANGED raised
              ELSE pc' = "raised" /\ raised' = Exc("TypeError", "pyslackrandomcoffee")
    /\ UNCHANGED <<members, previous_pairs, members_previous_matches, first_member,
                   pairs, result, roster, history, log>>
    /\ UNCHANGED <<testing, pairs_are_public, bot_user_id, members_none,
                   conversation_history, message, mpim_i>>

\* get_bot_user_id, lines 27-33, and line 422.
GetBotUserId ==
    /\ pc = "get_bot_user_id"
    /\ \E reply \in {"ok", "error"} :
           /\ calls' = Append(calls, Call("auth_test", reply, "", 0))
           /\ bot_user_id' = IF reply = "ok" THEN Some(BotId) ELSE NoneVal
    /\ pc' = "get_members_list"
    /\ UNCHANGED <<raised, gen_data>>
    /\ UNCHANGED <<testing, pairs_are_public, members_none, conversation_history,
                   message, mpim_i>>

\* get_members_list, lines 204-253, and line 423: the channel holds the bot
\* and n people. Any SlackApiError (conversations_members, users_info) ends
\* at line 253.
GetMembersList ==
    /\ pc = "get_members_list"
    /\ \/ \E n \in 0..MaxMembers :
              /\ members' = MembersOf(<<BotId>> \o SubSeq(AllIds, 1, n), testing)
              /\ members_none' = FALSE
              /\ calls' = Append(calls, Call("conversations_members", "ok", "", 0))
       \/ /\ members' = <<>>
          /\ members_none' = TRUE
          /\ calls' = Append(calls, Call("conversations_members", "error", "", 0))
    /\ pc' = "fetch_history"
    /\ UNCHANGED <<raised, previous_pairs, members_previous_matches, first_member,
                   pairs, result, roster, history, log>>
    /\ UNCHANGED <<testing, pairs_are_public, bot_user_id, conversation_history,
                   message, mpim_i>>

\* Line 424, len(members), and get_previous_pairs up to line 128. The handler
\* at line 128 formats the name channel, which is not bound: NameError.
FetchHistory ==
    /\ pc = "fetch_history"
    /\ IF members_none
       THEN /\ raised' = Exc("TypeError", "pyslackrandomcoffee")
            /\ pc' = "raised"
            /\ UNCHANGED <<conversation_history, calls>>
       ELSE \/ \E fetched \in ChannelHistories(testing) :
                   /\ conversation_history' = fetched
                   /\ calls' = Append(calls, Call("conversations_history", "ok", "", 0))
                   /\ pc' = "parse_history"
                   /\ UNCHANGED raised
            \/ /\ calls' = Append(calls, Call("conversations_history", "error", "", 0))
               /\ raised' = Exc("NameError", "get_previous_pairs")
               /\ pc' = "raised"
               /\ UNCHANGED conversation_history
    /\ UNCHANGED <<members, previous_pairs, members_previous_matches, first_member,
                   pairs, result, roster, history, log>>
    /\ UNCHANGED <<testing, pairs_are_public, bot_user_id, members_none, message, mpim_i>>

\* get_previous_pairs from line 130, and the call at line 425.
ParseHistory ==
    /\ pc = "parse_history"
    /\ LET r == ParseHistoryOf(conversation_history, testing, bot_user_id, Len(members))
       IN IF r.exc # ""
          THEN /\ raised' = Exc(r.exc, "get_previous_pairs")
               /\ pc' = "raised"
               /\ UNCHANGED <<previous_pairs, roster, history>>
          ELSE /\ previous_pairs' = r.val
               /\ roster' = members
               /\ history' = r.val
               /\ pc' = "shuffle"
               /\ UNCHANGED raised
    /\ UNCHANGED <<members, members_previous_matches, first_member, pairs, result, log>>
    /\ UNCHANGED run_vars

\* Line 426.
FormatMessage ==
    /\ pc = "returned"
    /\ message' = format_message_from_list_of_pairs(result.val)
    /\ mpim_i' = 1
    /\ pc' = "mpim"
    /\ UNCHANGED <<raised, gen_data>>
    /\ UNCHANGED <<testing, pairs_are_public, bot_user_id, members_none,
                   conversation_history, calls>>

\* One pass of the loop of mpim_all_pairs, lines 380-388: a SlackApiError of
\* conversations_open is caught at line 387; whatever else is raised leaves
\* the function.
MpimPair ==
    /\ pc = "mpim"
    /\ mpim_i <= Len(result.val)
    /\ \/ /\ calls' = Append(calls, Call("conversations_open", "error", "mpim", mpim_i))
          /\ mpim_i' = mpim_i + 1
          /\ UNCHANGED <<pc, raised>>
       \/ \E reply \in {"ok", "not_ok", "error"} :
              /\ calls' = calls \o <<Call("conversations_open", "ok", "mpim", mpim_i),
                                     Call("chat_postMessage", reply, "mpim", mpim_i)>>
              /\ IF post_to_slack_channel_message(reply).exc # ""
                 THEN /\ raised' = Exc(post_to_slack_channel_message(reply).exc,
                                       "post_to_slack_channel_message")
                      /\ pc' = "raised"
                      /\ UNCHANGED mpim_i
                 ELSE /\ mpim_i' = mpim_i + 1
                      /\ UNCHANGED <<pc, raised>>
    /\ UNCHANGED gen_data
    /\ UNCHANGED <<testing, pairs_are_public, bot_user_id, members_none,
                   conversation_history, message>>

\* The loop of mpim_all_pairs is over, and line 429.
MpimReturn ==
    /\ pc = "mpim"
    /\ mpim_i > Len(result.val)
    /\ pc' = IF ~message.isNone /\ message.val # <<>> THEN "post_memory" ELSE "done"
    /\ UNCHANGED <<raised, gen_data>>
    /\ UNCHANGED run_vars

\* A call of post_to_slack_channel_message from lines 430 or 433.
Post(to, next) ==
    \E reply \in {"ok", "not_ok", "error"} :
        /\ calls' = Append(calls, Call("chat_postMessage", reply, to, 0))
        /\ IF post_to_slack_channel_message(reply).exc # ""
           THEN /\ raised' = Exc(post_to_slack_channel_message(reply).exc,
                                 "post_to_slack_channel_message")
                /\ pc' = "raised"
           ELSE /\ pc' = next
                /\ UNCHANGED raised

\* Lines 430-431.
PostMemory ==
    /\ pc = "post_memory"
    /\ Post("memory", IF pairs_are_public THEN "done" ELSE "post_channel")
    /\ UNCHANGED gen_data
    /\ UNCHANGED <<testing, pairs_are_public, bot_user_id, members_none,
                   conversation_history, message, mpim_i>>

\* Line 433.
PostChannel ==
    /\ pc = "post_channel"
    /\ Post("channel", "done")
    /\ UNCHANGED gen_data
    /\ UNCHANGED <<testing, pairs_are_public, bot_user_id, members_none,
                   conversation_history, message, mpim_i>>

RunInit ==
    /\ pc = "get_channels_id"
    /\ raised = NoExc
    /\ members = <<>>
    /\ previous_pairs = NoneVal
    /\ members_previous_matches = EmptyDict
    /\ first_member = <<>>
    /\ pairs = <<>>
    /\ result = NoneVal
    /\ roster = <<>>
    /\ history = NoneVal
    /\ log = <<>>
    /\ testing \in BOOLEAN
    /\ pairs_are_public \in BOOLEAN
    /\ bot_user_id = NoneVal
    /\ members_none = FALSE
    /\ conversation_history = <<>>
    /\ message = NoneVal
    /\ mpim_i = 0
    /\ calls = <<>>

RunNext ==
    \/ GetChannelsId \/ GetBotUserId \/ GetMembersList \/ FetchHistory \/ ParseHistory
    \/ Shuffle \/ BuildIndex \/ Begin \/ LoopPair \/ LoopLast \/ Return
    \/ FormatMessage \/ MpimPair \/ MpimReturn \/ PostMemory \/ PostChannel

RunSpec == RunInit /\ [][RunNext]_vars

----------------------------------------------------------------------------
(* Properties of the run *)

Called(method, reply) ==
    \E k \in DOMAIN calls : calls[k].method = method /\ calls[k].reply = reply

\* C7: when the direct message of one pair fails with a platform error, in
\* conversations_open or in chat_postMessage, nothing is raised out of the
\* announcer, the pairs computed stay as they were, and by the end of the run
\* a delivery was attempted for every pair and for the summary.
C7_DeliveryFailureAbsorbed ==
    (\E k \in DOMAIN calls : calls[k].to = "mpim" /\ calls[k].reply = "error") =>
        /\ raised = NoExc
        /\ result = Some(pairs)
        /\ pc = "done" =>
               /\ \A i \in 1..Len(result.val) :
                      \E k \in DOMAIN calls :
                          calls[k].method = "conversations_open" /\ calls[k].i = i
               /\ ~message.isNone =>
                      \E k \in DOMAIN calls :
                          calls[k].method = "chat_postMessage" /\ calls[k].to = "memory"

\* C8: get_previous_pairs raises nothing; it returns None when no fetched
\* message holds the magical text, and when the fetch failed.
C8_HistoryProviderAbsorbs ==
    /\ raised.at # "get_previous_pairs"
    /\ pc \in {"shuffle", "index", "begin", "loop", "returned", "mpim", "post_memory",
               "post_channel", "done"} =>
           /\ Called("conversations_history", "error") => ~Truthy(previous_pairs)
           /\ (\A k \in DOMAIN conversation_history :
                   ~Contains(conversation_history[k].text, MAGICAL_TEXT))
                  => previous_pairs.isNone

\* C9: when the roster cannot be obtained, get_members_list returns an empty
\* list, nothing is raised, and the run ends with an empty result.
C9_RosterFailureGivesEmpty ==
    Called("conversations_members", "error") =>
        /\ ~members_none
        /\ raised = NoExc
        /\ pc = "done" => result = Some(<<>>)

----------------------------------------------------------------------------
(* The pairing memory: a round is announced by one run and read back by the *)
(* next, in production mode                                                  *)

MaxRoundLen == 2

\* members_count when get_previous_pairs is called without it, line 82: no
\* message is cut off.
DefaultMembersCount == 1000

\* The rounds announced: every sequence of one to MaxRoundLen pairs of ids,
\* self-pairs included.
AnnouncedRounds ==
    LET ids == Range(SubSeq(AllIds, 1, MaxMembers))
    IN UNION {[1..n -> ids \X ids] : n \in 1..MaxRoundLen}

\* Line 426 of the announcing run.
TripFormat ==
    /\ pc = "trip_format"
    /\ message' = format_message_from_list_of_pairs(result.val)
    /\ pc' = "trip_post"
    /\ UNCHANGED <<raised, gen_data>>
    /\ UNCHANGED <<testing, pairs_are_public, bot_user_id, members_none,
                   conversation_history, mpim_i, calls>>

\* Line 430 of the announcing run: the bot's message is now in the memory
\* channel, where lines 119-120 of the next run find it.
TripPost ==
    /\ pc = "trip_post"
    /\ ~message.isNone
    /\ calls' = Append(calls, Call("chat_postMessage", "ok", "memory", 0))
    /\ conversation_history' = <<[user |-> BotId, text |-> message.val]>>
    /\ pc' = "trip_parse"
    /\ UNCHANGED <<raised, gen_data>>
    /\ UNCHANGED <<testing, pairs_are_public, bot_user_id, members_none, message, mpim_i>>

\* get_previous_pairs of the next run from line 130.
TripParse ==
    /\ pc = "trip_parse"
    /\ LET r == ParseHistoryOf(conversation_history, testing, bot_user_id,
                               DefaultMembersCount)
       IN IF r.exc # ""
          THEN /\ raised' = Exc(r.exc, "get_previous_pairs")
               /\ pc' = "raised"
               /\ UNCHANGED previous_pairs
          ELSE /\ previous_pairs' = r.val
               /\ pc' = "trip_done"
               /\ UNCHANGED raised
    /\ UNCHANGED <<members, members_previous_matches, first_member, pairs, result,
                   roster, history, log>>
    /\ UNCHANGED run_vars

TripInit ==
    /\ pc = "trip_format"
    /\ raised = NoExc
    /\ members = <<>>
    /\ previous_pairs = NoneVal
    /\ members_previous_matches = EmptyDict
    /\ first_member = <<>>
    /\ \E round \in AnnouncedRounds : pairs = round /\ result = Some(round)
    /\ roster = <<>>
    /\ history = NoneVal
    /\ log = <<>>
    /\ testing = FALSE
    /\ pairs_are_public \in BOOLEAN
    /\ bot_user_id = Some(BotId)
    /\ members_none = FALSE
    /\ conversation_history = <<>>
    /\ message = NoneVal
    /\ mpim_i = 0
    /\ calls = <<>>

TripNext == TripFormat \/ TripPost \/ TripParse

TripSpec == TripInit /\ [][TripNext]_vars

\* C11: in production mode the text format_message_from_list_of_pairs builds
\* from a non-empty sequence of pairs is read back by get_previous_pairs as
\* one round holding the same pairs in the same order.
C11_RoundTrip ==
    pc \in {"trip_done", "raised"} =>
        /\ raised = NoExc
        /\ previous_pairs = Some(<<result.val>>)

====
